---- MODULE Spec2Model ----
(***************************************************************************)
(* Model of foreman_ptable.py: the ensure() reconciliation of one Foreman  *)
(* partition table, one action per remote call or local step of ensure(),  *)
(* run repeatedly against a remote store that persists between runs.       *)
(*                                                                         *)
(* Python values: a dict is a TLA+ function over its keys (data grows by   *)
(* @@), None of a dict-valued name is the empty function, None of a        *)
(* string-valued parameter is the string None, and a value is "truthy" as  *)
(* Python's `if x` decides it.  module.fail_json() ends the invocation.    *)
(***************************************************************************)
EXTENDS Integers, Sequences, FiniteSets, TLC

\* ------------------------------------------------------------------ bounds
\* Longest locations list a descriptor carries.
MaxLocs == 2

\* ------------------------------------------------------------ input values
None == "None"
NonePtable == <<>>

Names == {"FreeBSD"}
\* module.params['layout']: not given, empty, or a literal layout.
LayoutParams == {None, "", "zfs on root"}
\* module.params['template_file']: not given, or a path.
TemplateFiles == {None, "empty.tpl", "zfs.tpl", "missing.tpl"}
OsFamilies == {None, "FreeBSD"}
States == {"present", "absent"}
\* Berlin and Paris are locations of the server; the other two are not.
LocationNames == {"Berlin", "Paris", "Nowhere", "Atlantis"}
\* Ids the server may give a new partition table.
Ids == {1, 2}

\* Python truthiness of a str-or-None value.
Truthy(s) == s # None /\ s # ""

\* open(template_file).read(): the file's contents, or IOError.
IOError == "IOError"
FileRead(f) ==
    CASE f = "empty.tpl" -> ""
      [] f = "zfs.tpl" -> "zfs on root"
      [] OTHER -> IOError

\* All lists of location names of length at most n.
RECURSIVE ListsUpTo(_)
ListsUpTo(n) ==
    IF n = 0 THEN {<<>>}
    ELSE LET shorter == ListsUpTo(n - 1)
         IN  shorter \cup {Append(s, l) : s \in {t \in shorter : Len(t) = n - 1},
                                         l \in LocationNames}

Descriptors ==
    [name : Names, layout : LayoutParams, template_file : TemplateFiles,
     os_family : OsFamilies, locations : ListsUpTo(MaxLocs), state : States]

\* ------------------------------------------------------- the remote server
\* theforeman.search_location(data={'name': n}): the location, or None.
NoneLocation == <<>>
search_location(n) ==
    CASE n = "Berlin" -> [id |-> 11]
      [] n = "Paris" -> [id |-> 12]
      [] OTHER -> NoneLocation

\* theforeman.search_partition_table(data={'name': n}) on store s.
search_partition_table(s, n) ==
    IF \E r \in s : r.name = n THEN CHOOSE r \in s : r.name = n ELSE NonePtable

\* theforeman.get_partition_table(id=i) on store s.
get_partition_table(s, i) ==
    IF \E r \in s : r.id = i THEN CHOOSE r \in s : r.id = i ELSE NonePtable

\* The record the server holds after create_partition_table(d) gave it id i.
CreatedRecord(d, i) == ("id" :> i) @@ d

\* The record the server holds after update_partition_table(id, d) of old:
\* the keys of d replace old's, the other keys of old stay.
UpdatedRecord(old, d) == d @@ old

\* The store after delete_partition_table(id=i).
StoreWithout(s, i) == {r \in s : r.id # i}

\* The store after update_partition_table(id=i, data=d).
StoreUpdated(s, i, d) == {IF r.id = i THEN UpdatedRecord(r, d) ELSE r : r \in s}

\* e.message of a ForemanError the client raises.
ForemanErrorMessage == "ForemanError"

\* ------------------------------------------------------------------- state
VARIABLES
    store,      \* the partition tables the server holds (a set of dicts)
    store0,     \* the store when the current invocation began
    params,     \* module.params of the current invocation
    pc,         \* position of the invocation in ensure()
    ptable,     \* ensure()'s local ptable
    data,       \* ensure()'s local data
    result,     \* get_location_ids()'s local result
    calls,      \* the client calls issued by the current invocation, in order
    outcome,    \* how the invocation ended: exit_json or fail_json
    rerun,      \* the invocation repeats the previous, successful one
    prev        \* what the previous invocation did, when rerun

vars == <<store, store0, params, pc, ptable, data, result, calls, outcome, rerun, prev>>

Running == [status |-> "running", msg |-> "", arg |-> "", changed |-> FALSE,
            ptable |-> NonePtable]
NoPrev == [changed |-> FALSE, ops |-> {}]

Call(op, arg, ok) == [op |-> op, arg |-> arg, ok |-> ok]
Mutating == {"create_partition_table", "update_partition_table",
             "delete_partition_table"}
Ops(log) == {log[k].op : k \in 1..Len(log)}

\* A fail_json that reports the failure and returns to its caller.
fail_json_returns(msg, arg) ==
    /\ pc' = pc
    /\ outcome' = [status |-> "failed", msg |-> msg, arg |-> arg,
                   changed |-> FALSE, ptable |-> NonePtable]

\* module.fail_json(msg=...): the invocation ends, failed.
fail_json(msg, arg) ==
    /\ pc' = "done"
    /\ outcome' = [status |-> "failed", msg |-> msg, arg |-> arg,
                   changed |-> FALSE, ptable |-> NonePtable]

\* return changed, ptable; main() hands both to module.exit_json.
exit_json(changed, pt) ==
    /\ pc' = "done"
    /\ outcome' = [status |-> "ok", msg |-> "", arg |-> "",
                   changed |-> changed, ptable |-> pt]

\* A partition table of another name that the server already holds.
OtherTable == [id |-> 3, name |-> "Debian", layout |-> "ext4 on lvm", os_family |-> "Debian"]

\* module.params before main() has been called.
NoParams == [name |-> None, layout |-> None, template_file |-> None,
             os_family |-> None, locations |-> <<>>, state |-> "present"]

Init ==
    /\ store = {OtherTable}
    /\ store0 = {OtherTable}
    /\ params = NoParams
    /\ pc = "idle"
    /\ ptable = NonePtable
    /\ data = <<>>
    /\ result = <<>>
    /\ calls = <<>>
    /\ outcome = Running
    /\ rerun = FALSE
    /\ prev = NoPrev

\* main() is called with new parameters; ensure() sets data = dict(name=name).
Start ==
    /\ pc = "idle"
    /\ \E d \in Descriptors :
          /\ params' = d
          /\ data' = [name |-> d.name]
    /\ pc' = "search_partition_table"
    /\ store0' = store
    /\ UNCHANGED <<store, ptable, result, calls, outcome, rerun, prev>>

\* exit_json and fail_json end the process: only the server's store remains.
Exit ==
    /\ pc = "done"
    /\ pc' = "idle"
    /\ params' = NoParams
    /\ ptable' = NonePtable
    /\ data' = <<>>
    /\ result' = <<>>
    /\ calls' = <<>>
    /\ outcome' = Running
    /\ store0' = store
    /\ rerun' = FALSE
    /\ prev' = NoPrev
    /\ UNCHANGED store

\* main() is run again with the parameters of the run that just succeeded.
Rerun ==
    /\ pc = "done"
    /\ outcome.status = "ok"
    /\ ~rerun
    /\ data' = [name |-> params.name]
    /\ pc' = "search_partition_table"
    /\ ptable' = NonePtable
    /\ result' = <<>>
    /\ calls' = <<>>
    /\ outcome' = Running
    /\ store0' = store
    /\ rerun' = TRUE
    /\ prev' = [changed |-> outcome.changed, ops |-> Ops(calls)]
    /\ UNCHANGED <<store, params>>

\* Where ensure() goes after the search: `if locations:`.
AfterSearch == IF params.locations # <<>> THEN "get_location_ids" ELSE "layout"

\* ptable = theforeman.search_partition_table(data=data)
SearchPartitionTable ==
    /\ pc = "search_partition_table"
    /\ \E ok \in BOOLEAN :
          /\ calls' = Append(calls, Call("search_partition_table", data.name, ok))
          /\ IF ok
             THEN /\ ptable' = search_partition_table(store, data.name)
                  /\ pc' = AfterSearch
                  /\ UNCHANGED outcome
             ELSE /\ fail_json("Could not get partition table", ForemanErrorMessage)
                  /\ UNCHANGED ptable
    /\ UNCHANGED <<store, store0, params, data, result, rerun, prev>>

\* `if not location:` in get_location_ids.
LocationMissing(location) == location = NoneLocation

\* The message formatted with the head of the list instead of locations[i].
MissingLocationNameFirst(locations, i) == locations[1]

\* The name 'Could not find Location {0}'.format(locations[i]) reports.
MissingLocationName(locations, i) == locations[i]

\* The ids collected by insert(0, id) instead of append(id).
WithLocationIdsReversed(d, ids) ==
    ("location_ids" :> [k \in 1..Len(ids) |-> ids[Len(ids) + 1 - k]]) @@ d

\* data['location_ids'] = get_location_ids(...)
WithLocationIds(d, ids) == ("location_ids" :> ids) @@ d

\* One turn of the loop of get_location_ids; the last one returns result.
GetLocationIds ==
    /\ pc = "get_location_ids"
    /\ LET i == Len(result) + 1
           name == params.locations[i]
           location == search_location(name)
       IN  \E ok \in BOOLEAN :
             /\ calls' = Append(calls, Call("search_location", name, ok))
             /\ IF ~ok
                THEN /\ fail_json("Could not get Locations", ForemanErrorMessage)
                     /\ UNCHANGED <<result, data>>
                ELSE IF LocationMissing(location)
                THEN /\ fail_json("Could not find Location",
                                  MissingLocationName(params.locations, i))
                     /\ UNCHANGED <<result, data>>
                ELSE /\ result' = Append(result, location.id)
                     /\ IF Len(result') = Len(params.locations)
                        THEN /\ data' = WithLocationIds(data, result')
                             /\ pc' = "layout"
                        ELSE UNCHANGED <<data, pc>>
                     /\ UNCHANGED outcome
    /\ UNCHANGED <<store, store0, params, ptable, rerun, prev>>

\* data['layout'] = ...; data['os_family'] = os_family
WithLayout(d, l, os) == [layout |-> l, os_family |-> os] @@ d

\* The layout the descriptor asks for: the literal, or the file's contents.
ResolvedLayout(p) == IF Truthy(p.layout) THEN p.layout ELSE FileRead(p.template_file)

\* Lines 123-135: the layout source is validated and read.
ResolveLayout ==
    /\ pc = "layout"
    /\ IF ~Truthy(params.layout) /\ ~Truthy(params.template_file)
       THEN /\ fail_json("Either layout or template_file must be defined", "")
            /\ UNCHANGED data
       ELSE IF Truthy(params.layout) /\ Truthy(params.template_file)
       THEN /\ fail_json("Only one of either layout or template_file must be defined", "")
            /\ UNCHANGED data
       ELSE IF ResolvedLayout(params) = IOError
       THEN /\ fail_json("Could not open file", params.template_file)
            /\ UNCHANGED data
       ELSE /\ data' = WithLayout(data, ResolvedLayout(params), params.os_family)
            /\ pc' = "decide"
            /\ UNCHANGED outcome
    /\ UNCHANGED <<store, store0, params, ptable, result, calls, rerun, prev>>

\* The create branch taken whatever the state is.
ShouldCreateAnyState(pt, state) == pt = NonePtable

\* `if not ptable and state == 'present':`
ShouldCreate(pt, state) == pt = NonePtable /\ state = "present"

\* The delete branch testing a state that is no choice of the module.
ShouldDeleteTypo(pt, state) == pt # NonePtable /\ state = "deleted"

\* `if ptable and state == 'absent':`
ShouldDelete(pt, state) == pt # NonePtable /\ state = "absent"

\* `if ptable and state == 'present':`
ShouldCompare(pt, state) == pt # NonePtable /\ state = "present"

\* The comparison with the raw layout parameter alone.
LayoutUnchangedRawOnly(stored, layout, resolved) == stored = layout

\* The comparison of the stored layout with the data dict, never equal.
LayoutUnchangedNever(stored, layout, resolved) == FALSE

\* `if ptable.get('layout') == layout or ptable.get('layout') == data['layout']:`
LayoutUnchanged(stored, layout, resolved) == stored = layout \/ stored = resolved

\* The id ensure() hands to delete_partition_table: ptable.get('id').
DeleteId(pt) == pt.id

\* The id ensure() hands to update_partition_table: ptable.get('id').
UpdateId(pt) == pt.id

\* ptable = theforeman.create_partition_table(data); return True, ptable
CreatePartitionTable ==
    /\ pc = "decide"
    /\ ShouldCreate(ptable, params.state)
    /\ \E ok \in BOOLEAN, i \in Ids :
          /\ i \notin {r.id : r \in store}
          /\ calls' = Append(calls, Call("create_partition_table", data, ok))
          /\ IF ok
             THEN /\ store' = store \cup {CreatedRecord(data, i)}
                  /\ ptable' = CreatedRecord(data, i)
                  /\ exit_json(TRUE, ptable')
             ELSE /\ store' \in {store, store \cup {CreatedRecord(data, i)}}
                  /\ fail_json("Could not create partition table", ForemanErrorMessage)
                  /\ UNCHANGED ptable
    /\ UNCHANGED <<store0, params, data, result, rerun, prev>>

\* ptable = theforeman.delete_partition_table(id=ptable.get('id')); return True, ptable
DeletePartitionTable ==
    /\ pc = "decide"
    /\ ~ShouldCreate(ptable, params.state)
    /\ ShouldDelete(ptable, params.state)
    /\ \E ok \in BOOLEAN :
          /\ calls' = Append(calls, Call("delete_partition_table", DeleteId(ptable), ok))
          /\ IF ok
             THEN /\ store' = StoreWithout(store, DeleteId(ptable))
                  /\ ptable' = get_partition_table(store, DeleteId(ptable))
                  /\ exit_json(TRUE, ptable')
             ELSE /\ store' \in {store, StoreWithout(store, DeleteId(ptable))}
                  /\ fail_json("Could not delete partition table", ForemanErrorMessage)
                  /\ UNCHANGED ptable
    /\ UNCHANGED <<store0, params, data, result, rerun, prev>>

\* ptable = theforeman.get_partition_table(id=ptable.get('id')), and the
\* comparison of its layout: return False, ptable when it is the desired one.
GetPartitionTable ==
    /\ pc = "decide"
    /\ ~ShouldCreate(ptable, params.state)
    /\ ~ShouldDelete(ptable, params.state)
    /\ ShouldCompare(ptable, params.state)
    /\ \E ok \in BOOLEAN :
          /\ calls' = Append(calls, Call("get_partition_table", ptable.id, ok))
          /\ IF ok
             THEN /\ ptable' = get_partition_table(store, ptable.id)
                  /\ IF LayoutUnchanged(ptable'.layout, params.layout, data.layout)
                     THEN exit_json(FALSE, ptable')
                     ELSE /\ pc' = "update"
                          /\ UNCHANGED outcome
             ELSE /\ fail_json("Could not get partition table to update",
                               ForemanErrorMessage)
                  /\ UNCHANGED ptable
    /\ UNCHANGED <<store, store0, params, data, result, rerun, prev>>

\* ptable = theforeman.update_partition_table(id=ptable.get('id'), data=data);
\* return True, ptable
UpdatePartitionTable ==
    /\ pc = "update"
    /\ \E ok \in BOOLEAN :
          /\ calls' = Append(calls, Call("update_partition_table",
                                         <<UpdateId(ptable), data>>, ok))
          /\ IF ok
             THEN /\ store' = StoreUpdated(store, UpdateId(ptable), data)
                  /\ ptable' = get_partition_table(store', UpdateId(ptable))
                  /\ exit_json(TRUE, ptable')
             ELSE /\ store' \in {store, StoreUpdated(store, UpdateId(ptable), data)}
                  /\ fail_json("Could not update partition table", ForemanErrorMessage)
                  /\ UNCHANGED ptable
    /\ UNCHANGED <<store0, params, data, result, rerun, prev>>

\* The last line of ensure(): return False, ptable
ReturnUnchanged ==
    /\ pc = "decide"
    /\ ~ShouldCreate(ptable, params.state)
    /\ ~ShouldDelete(ptable, params.state)
    /\ ~ShouldCompare(ptable, params.state)
    /\ exit_json(FALSE, ptable)
    /\ UNCHANGED <<store, store0, params, ptable, data, result, calls, rerun, prev>>

Next ==
    \/ Start
    \/ Exit
    \/ Rerun
    \/ SearchPartitionTable
    \/ GetLocationIds
    \/ ResolveLayout
    \/ CreatePartitionTable
    \/ DeletePartitionTable
    \/ GetPartitionTable
    \/ UpdatePartitionTable
    \/ ReturnUnchanged

Spec == Init /\ [][Next]_vars

\* ------------------------------------------------- vocabulary of the claims
Done == pc = "done"
Failed == outcome.status = "failed"
Returned == outcome.status = "ok"

\* Exactly one of layout and template_file is given.
OneSource(p) == Truthy(p.layout) # Truthy(p.template_file)
Unresolvable(n) == search_location(n) = NoneLocation
UnresolvedAt(p) == {k \in 1..Len(p.locations) : Unresolvable(p.locations[k])}
\* A descriptor ensure() has no reason to reject.
Valid(p) == OneSource(p) /\ ResolvedLayout(p) # IOError /\ UnresolvedAt(p) = {}

\* No client call of the invocation raised a ForemanError.
AllOk == \A k \in 1..Len(calls) : calls[k].ok
CallsOf(op) == {k \in 1..Len(calls) : calls[k].op = op}
NoMutation == Ops(calls) \cap Mutating = {}
\* The partition table of the descriptor's name when the invocation began.
Found0 == search_partition_table(store0, params.name)
LocationIdsOf(p) == [k \in 1..Len(p.locations) |-> search_location(p.locations[k]).id]
ValidationMessages == {"Either layout or template_file must be defined",
                       "Only one of either layout or template_file must be defined"}

\* ------------------------------------------------------------------ claims
\* C1: a run that repeats, on an untouched store, the descriptor of the run
\* that just succeeded issues no create, update or delete call and leaves the
\* store alone, and when none of its calls raises it returns changed=false.
\* When the first run was for a present descriptor with no match, it created
\* the table and returned changed=true, and the layout stored after both runs
\* is the resolved layout.
C1_Idempotent ==
    rerun =>
      /\ NoMutation
      /\ store = store0
      /\ (Done /\ AllOk) => (Returned /\ ~outcome.changed)
      /\ (params.state = "present" /\ "get_partition_table" \notin prev.ops) =>
            /\ prev.changed
            /\ "create_partition_table" \in prev.ops
            /\ Found0 # NonePtable
            /\ Found0.layout = ResolvedLayout(params)
            /\ (Done /\ AllOk) => outcome.ptable.layout = ResolvedLayout(params)

C1_Witness ==
    /\ rerun /\ Done /\ Returned /\ ~outcome.changed
    /\ prev.changed /\ "create_partition_table" \in prev.ops
    /\ Truthy(params.template_file)

\* C2 (as claimed): a descriptor with both layout and template_file, or with
\* neither, ends in a validation failure before any remote call is issued.
C2_ValidationBeforeAnyCall ==
    (Done /\ ~OneSource(params)) =>
      /\ Failed
      /\ outcome.msg \in ValidationMessages
      /\ calls = <<>>

\* C3 (as claimed): when any name of the locations list does not resolve, the
\* invocation fails, the failure message names that location, and no create,
\* update or delete call is issued.
C3_EveryUnresolvedNamed ==
    Done =>
      \A k \in UnresolvedAt(params) :
        /\ Failed
        /\ outcome.msg = "Could not find Location"
        /\ outcome.arg = params.locations[k]
        /\ NoMutation

\* C3 (amended): when a name of the locations list does not resolve, the
\* invocation fails, no create, update or delete call is issued and the store
\* is unchanged; when no client call raised, the failure message names the
\* first location of the list that does not resolve.
C3_FirstUnresolvedNamed ==
    (Done /\ UnresolvedAt(params) # {}) =>
      /\ Failed
      /\ NoMutation
      /\ store = store0
      /\ AllOk =>
            /\ outcome.msg = "Could not find Location"
            /\ \E k \in UnresolvedAt(params) :
                  /\ \A j \in UnresolvedAt(params) : k <= j
                  /\ outcome.arg = params.locations[k]

C3_Witness ==
    /\ Done /\ Failed /\ AllOk
    /\ Len(params.locations) = 2
    /\ UnresolvedAt(params) = {2}
    /\ outcome.arg = params.locations[2]

\* C4: for a valid absent descriptor whose name matches a stored table, with
\* every call succeeding, exactly one delete call is issued, with the id of
\* the match, no create or update call is issued, changed=true is returned and
\* the store then holds no table of that name (and every other table still).
C4_AbsentDeletes ==
    (Done /\ params.state = "absent" /\ Valid(params) /\ AllOk /\ Found0 # NonePtable) =>
      /\ Returned /\ outcome.changed
      /\ Cardinality(CallsOf("delete_partition_table")) = 1
      /\ \A k \in CallsOf("delete_partition_table") : calls[k].arg = Found0.id
      /\ CallsOf("create_partition_table") = {}
      /\ CallsOf("update_partition_table") = {}
      /\ search_partition_table(store, params.name) = NonePtable
      /\ store = store0 \ {Found0}

C4_Witness ==
    /\ Done /\ params.state = "absent" /\ Valid(params) /\ AllOk
    /\ Found0 # NonePtable
    /\ outcome.changed
    /\ store = {OtherTable}

\* C5: for a valid present descriptor whose resolved layout equals the layout
\* of the stored table of that name, whatever its os_family and locations,
\* with every call succeeding: changed=false is returned, no create, update or
\* delete call is issued, the store is unchanged and the result is the record
\* fetched by id.
C5_SameLayoutNoOp ==
    (/\ Done /\ params.state = "present" /\ Valid(params) /\ AllOk
     /\ Found0 # NonePtable /\ Found0.layout = ResolvedLayout(params)) =>
      /\ Returned /\ ~outcome.changed
      /\ NoMutation
      /\ store = store0
      /\ CallsOf("get_partition_table") # {}
      /\ outcome.ptable = get_partition_table(store0, Found0.id)

C5_Witness ==
    /\ Done /\ params.state = "present" /\ Valid(params) /\ AllOk
    /\ Found0 # NonePtable /\ Found0.layout = ResolvedLayout(params)
    /\ Truthy(params.template_file)
    /\ Found0.os_family # params.os_family
    /\ params.locations # <<>> /\ "location_ids" \notin DOMAIN Found0
    /\ ~outcome.changed

\* C6: for a valid present descriptor whose name matches no stored table, with
\* every call succeeding, create is called exactly once, with the descriptor's
\* name, the resolved layout, the os_family and the ids of the named locations
\* in list order; no update or delete call is issued; changed=true is returned
\* and the result is the created record, which bears the descriptor's name.
C6_PresentCreates ==
    (Done /\ params.state = "present" /\ Valid(params) /\ AllOk /\ Found0 = NonePtable) =>
      /\ Returned /\ outcome.changed
      /\ Cardinality(CallsOf("create_partition_table")) = 1
      /\ \A k \in CallsOf("create_partition_table") :
            /\ DOMAIN calls[k].arg \subseteq {"name", "layout", "os_family", "location_ids"}
            /\ {"name", "layout", "os_family"} \subseteq DOMAIN calls[k].arg
            /\ calls[k].arg.name = params.name
            /\ calls[k].arg.layout = ResolvedLayout(params)
            /\ calls[k].arg.os_family = params.os_family
            /\ IF params.locations = <<>>
               THEN "location_ids" \notin DOMAIN calls[k].arg
               ELSE /\ "location_ids" \in DOMAIN calls[k].arg
                    /\ calls[k].arg.location_ids = LocationIdsOf(params)
            /\ outcome.ptable = CreatedRecord(calls[k].arg, outcome.ptable.id)
      /\ CallsOf("update_partition_table") = {}
      /\ CallsOf("delete_partition_table") = {}
      /\ outcome.ptable.name = params.name
      /\ store = store0 \cup {outcome.ptable}

C6_Witness ==
    /\ Done /\ params.state = "present" /\ Valid(params) /\ AllOk
    /\ Found0 = NonePtable
    /\ outcome.changed
    /\ params.locations = <<"Paris", "Berlin">>
    /\ outcome.ptable.location_ids = <<12, 11>>
    /\ outcome.ptable.layout = "zfs on root"

\* C7 (as claimed): for a valid present descriptor whose name matches a stored
\* table, with every call succeeding, whenever the fetched record's layout
\* differs from the resolved desired layout, update is called by that id with
\* the new data and changed=true is returned, whatever the raw layout
\* parameter is.
C7_ResolvedLayoutDecides ==
    (/\ Done /\ params.state = "present" /\ Valid(params) /\ AllOk
     /\ Found0 # NonePtable /\ Found0.layout # ResolvedLayout(params)) =>
      /\ Returned /\ outcome.changed
      /\ \E k \in CallsOf("update_partition_table") : calls[k].arg = <<Found0.id, data>>

\* C8: for a valid absent descriptor whose name matches no stored table, no
\* create, update, delete or get call is ever issued and the store stays as it
\* was; with every call succeeding, changed=false and the result None are
\* returned.
C8_AbsentNoMatchNoOp ==
    (params.state = "absent" /\ Valid(params) /\ Found0 = NonePtable /\ pc # "idle") =>
      /\ NoMutation
      /\ CallsOf("get_partition_table") = {}
      /\ store = store0
      /\ (Done /\ AllOk) =>
            /\ Returned /\ ~outcome.changed
            /\ outcome.ptable = NonePtable

C8_Witness ==
    /\ Done /\ params.state = "absent" /\ Valid(params) /\ AllOk
    /\ Found0 = NonePtable
    /\ Returned /\ ~outcome.changed
    /\ params.locations # <<>>

\* C9 (as claimed): the calls of an invocation come in the order: every
\* search_location, then search_partition_table, then at most one of a create,
\* a delete, or a get followed by at most one update.
CallRank(op) ==
    CASE op = "search_location" -> 1
      [] op = "search_partition_table" -> 2
      [] op = "get_partition_table" -> 3
      [] OTHER -> 4

C9_LocationsThenSearch ==
    /\ \A j, k \in 1..Len(calls) : j < k => CallRank(calls[j].op) <= CallRank(calls[k].op)
    /\ Cardinality(CallsOf("search_partition_table")) <= 1
    /\ Cardinality(CallsOf("get_partition_table")) <= 1
    /\ Cardinality({k \in 1..Len(calls) : calls[k].op \in Mutating}) <= 1
    /\ CallsOf("get_partition_table") # {} =>
          Ops(calls) \cap {"create_partition_table", "delete_partition_table"} = {}

\* C10: a failing step ends the invocation in failure: a call that raised is
\* the last call of the invocation (it is not retried and nothing follows it),
\* a rejected layout source, an unreadable template file or an unresolved
\* location leaves the invocation failed, a failed invocation is over, and a
\* failure with no create, update or delete call issued leaves the store as it
\* was when the invocation began.
C10_FailStop ==
    /\ \A k \in 1..Len(calls) :
          ~calls[k].ok => (k = Len(calls) /\ Done /\ Failed)
    /\ Failed => Done
    /\ (Done /\ ~Valid(params)) => Failed
    /\ Done => (Failed \/ Returned)
    /\ (Failed /\ NoMutation) => store = store0

C10_Witness ==
    /\ Done /\ Failed
    /\ Len(calls) = 3
    /\ calls[1].ok /\ calls[2].ok /\ ~calls[3].ok
    /\ calls[3].op = "get_partition_table"
    /\ store = store0

====
